---- MODULE Spec2Model ----
(***************************************************************************)
(* Model of sim/gen_stimuli.py: the stimulus generator of hwpe-stream.     *)
(*                                                                         *)
(* One run of the script is one behaviour.  Text (arguments, file content, *)
(* lines) is a sequence of one-character strings, so that int(), hex() and *)
(* the slice [2:] are computed character by character.  A 32-bit value is  *)
(* a pair <<hi, lo>> of 16-bit halves (value = hi * 65536 + lo), because   *)
(* 2**32 - 1 does not fit the integers of the model checker.  int(), hex() *)
(* and range() are those of Python 3; a Python 2 whose plain integers hold *)
(* 2**32 - 1 agrees on every input used here.  f.write() is taken at the   *)
(* level of the call: a line that does not fit the disk fails the call     *)
(* that writes it.                                                         *)
(***************************************************************************)
EXTENDS Integers, Sequences, FiniteSets, TLC

(***************************************************************************)
(* Bounds of the model.                                                    *)
(***************************************************************************)
MaxCount == 3        \* largest RESERVOIR_SIZE given on the command line
MaxNeg == 2          \* most negative RESERVOIR_SIZE given is -MaxNeg
MaxDisk == 4         \* small disks leave 0..MaxDisk characters of space

(***************************************************************************)
(* Program constants.                                                      *)
(***************************************************************************)
DATA_WIDTH == 32
Half == 65536                             \* 2 ** (DATA_WIDTH / 2)
HexWidth == DATA_WIDTH \div 4             \* digits of the largest value
MinVal == <<0, 0>>                        \* randint lower bound, 0
MaxVal == <<Half - 1, Half - 1>>          \* randint upper bound, 2**32-1
UsageText == "Usage: gen_stimuli.py RESERVOIR_SIZE FILE_NAME"
NL == "\n"

HexDigits == <<"0", "1", "2", "3", "4", "5", "6", "7",
               "8", "9", "a", "b", "c", "d", "e", "f">>
DecDigits == <<"0", "1", "2", "3", "4", "5", "6", "7", "8", "9">>
Whitespace == {" ", "\t", NL}

DecDigitSet == {DecDigits[k] : k \in 1..Len(DecDigits)}
HexDigitSet == {HexDigits[k] : k \in 1..Len(HexDigits)}

(***************************************************************************)
(* int(sys.argv[1]): surrounding whitespace is dropped, one sign is        *)
(* allowed, the rest must be one or more decimal digits; anything else      *)
(* raises ValueError.                                                      *)
(***************************************************************************)
RECURSIVE LStrip(_)
LStrip(s) ==
    IF s # <<>> /\ Head(s) \in Whitespace THEN LStrip(Tail(s)) ELSE s

RECURSIVE RStrip(_)
RStrip(s) ==
    IF s # <<>> /\ s[Len(s)] \in Whitespace
    THEN RStrip(SubSeq(s, 1, Len(s) - 1))
    ELSE s

Strip(s) == RStrip(LStrip(s))

HasSign(s) == s # <<>> /\ Head(s) \in {"+", "-"}

Unsigned(s) == IF HasSign(s) THEN Tail(s) ELSE s

IntValid(s) ==
    LET u == Unsigned(Strip(s))
    IN  u # <<>> /\ \A k \in 1..Len(u) : u[k] \in DecDigitSet

DigitVal(c) == (CHOOSE k \in 1..Len(DecDigits) : DecDigits[k] = c) - 1

RECURSIVE Magnitude(_)
Magnitude(u) ==
    IF u = <<>> THEN 0
    ELSE 10 * Magnitude(SubSeq(u, 1, Len(u) - 1)) + DigitVal(u[Len(u)])

IntValue(s) ==
    LET t == Strip(s)
        m == Magnitude(Unsigned(t))
    IN  IF HasSign(t) /\ Head(t) = "-" THEN 0 - m ELSE m

(***************************************************************************)
(* hex(v)[2:] + '\n' for a value v = <<hi, lo>>.  hex() gives '0x' and the  *)
(* digits of v in base 16, most significant first, without leading zeros.  *)
(***************************************************************************)
IsZero(v) == v[1] = 0 /\ v[2] = 0

LowNibble(v) == v[2] % 16

Shr4(v) == <<v[1] \div 16, (v[2] \div 16) + (v[1] % 16) * (Half \div 16)>>

RECURSIVE PaddedDigits(_, _)
PaddedDigits(v, n) ==
    IF n = 0 THEN <<>>
    ELSE PaddedDigits(Shr4(v), n - 1) \o <<HexDigits[LowNibble(v) + 1]>>

RECURSIVE hexdigits(_)
hexdigits(v) ==
    IF IsZero(Shr4(v)) THEN <<HexDigits[LowNibble(v) + 1]>>
    ELSE hexdigits(Shr4(v)) \o <<HexDigits[LowNibble(v) + 1]>>

\* variant of hex with a fixed width of eight digits
hex_Padded(v) == <<"0", "x">> \o PaddedDigits(v, HexWidth)

hex(v) == <<"0", "x">> \o hexdigits(v)

\* variant of From2 that drops one character only
From2_OffByOne(s) == SubSeq(s, 2, Len(s))

\* the slice [2:]
From2(s) == SubSeq(s, 3, Len(s))

LineOf(v) == From2(hex(v)) \o <<NL>>

(***************************************************************************)
(* The inputs of a run.                                                    *)
(***************************************************************************)
RECURSIVE DecNat(_)
DecNat(n) ==
    IF n < 10 THEN <<DecDigits[n + 1]>>
    ELSE DecNat(n \div 10) \o <<DecDigits[(n % 10) + 1]>>

Dec(n) == IF n < 0 THEN <<"-">> \o DecNat(0 - n) ELSE DecNat(n)

ProgName == "gen_stimuli.py"
Paths == {"out.txt", "other.txt"}

\* first arguments: the decimal counts, and texts int() accepts or rejects
CountArgs == {Dec(n) : n \in (0 - MaxNeg)..MaxCount}
OddArgs == { <<>>, <<"a", "b", "c">>, <<"1", ".", "5">>, <<"0", "x", "1">>,
             <<"-">>, <<" ", "2", NL>>, <<"+", "1">>, <<"0", "0", "1">>,
             <<"1", " ", "1">> }
FirstArgs == CountArgs \cup OddArgs

ArgLists ==
    {<<ProgName>>}
    \cup {<<ProgName, a>> : a \in FirstArgs}
    \cup {<<ProgName, a, p>> : a \in FirstArgs, p \in Paths}
    \cup {<<ProgName, a, p, "extra">> : a \in FirstArgs, p \in Paths}

\* values random.randint(0, 2**32-1) can return
Samples == { MinVal, <<0, 10>>, <<1, 0>>, MaxVal }

\* a file is absent, or present with some content
Absent == [exists |-> FALSE, data |-> <<>>]
File(d) == [exists |-> TRUE, data |-> d]
OldContents == { <<"z", "z">>,
                 <<"1", "2", "3", "4", "5", "6", "7", "8", "9", NL,
                   "1", "2", "3", "4", "5", "6", "7", "8", "9", NL,
                   "1", "2", "3", "4", "5", "6", "7", "8", "9", NL,
                   "1", "2", "3", "4", "5", "6", "7", "8", "9", NL,
                   "o", "l", "d", NL, "t", "a", "i", "l">> }
OldFiles == {Absent} \cup {File(d) : d \in OldContents}

\* the files at the start: one path varies, the other holds a short text
InitFiles ==
    { [p \in Paths |-> IF p = q THEN o ELSE File(<<"z", "z">>)] :
        q \in Paths, o \in OldFiles }

\* free space of the disk, in characters; Ample never runs out
Ample == (HexWidth + 1) * (MaxCount + 1)
DiskSizes == (0..MaxDisk) \cup {Ample}

VARIABLES
    argv,            \* sys.argv
    fs,              \* the files, by path
    fs0,             \* the files when the run started
    canOpen,         \* whether open(FILE_NAME, 'w') can succeed
    disk0,           \* free space of the disk when the run started
    diskFree,        \* characters the disk still takes
    pc,              \* position of the script
    RESERVOIR_SIZE,
    FILE_NAME,
    f,               \* the file object: "none", "open", "closed"
    i,               \* the loop index
    cur,             \* the value drawn and not yet written
    drawn,           \* the values drawn so far, in order
    opens,           \* calls of open() so far
    ioErrors,        \* calls of open() or write() that failed so far
    stdout,
    exc,             \* the exception being propagated, "none" if none
    exitStatus       \* exit status of the process, -1 while it runs

vars == <<argv, fs, fs0, canOpen, disk0, diskFree, pc, RESERVOIR_SIZE, FILE_NAME,
          f, i, cur, drawn, opens, ioErrors, stdout, exc, exitStatus>>

Init ==
    /\ argv \in ArgLists
    /\ fs \in InitFiles
    /\ fs0 = fs
    /\ canOpen \in BOOLEAN
    /\ disk0 \in DiskSizes
    /\ diskFree = disk0
    /\ pc = "start"
    /\ RESERVOIR_SIZE = 0        \* not yet bound; bound by ParseArgs
    /\ FILE_NAME = ""            \* not yet bound; bound by ParseArgs
    /\ f = "none"
    /\ i = 0
    /\ cur = MinVal
    /\ drawn = <<>>
    /\ opens = 0
    /\ ioErrors = 0
    /\ stdout = <<>>
    /\ exc = "none"
    /\ exitStatus = -1

env == <<argv, fs0, canOpen, disk0>>
hist == <<drawn, opens, ioErrors>>

\* variant of ArgcOK that lets extra arguments through
ArgcOK_AtLeast(a) == Len(a) >= 3

\* len(sys.argv) == 3: the program name and two arguments
ArgcOK(a) == Len(a) = 3

\* else branch: print the usage text, sys.exit(1)
UsageError ==
    /\ pc = "start"
    /\ ~ArgcOK(argv)
    /\ stdout' = Append(stdout, UsageText)
    /\ exitStatus' = 1
    /\ pc' = "exit"
    /\ UNCHANGED <<env, fs, diskFree, RESERVOIR_SIZE, FILE_NAME, f, i, cur,
                   hist, exc>>

\* variant of ParseError in which the file is opened before the parse
ParseError_OpenFirst ==
    /\ pc = "start"
    /\ ArgcOK(argv)
    /\ ~IntValid(argv[2])
    /\ fs' = [fs EXCEPT ![argv[3]] = File(<<>>)]
    /\ exc' = "ValueError"
    /\ exitStatus' = 1
    /\ pc' = "exit"
    /\ UNCHANGED <<env, diskFree, RESERVOIR_SIZE, FILE_NAME, f, i, cur,
                   hist, stdout>>

\* int(sys.argv[1]) raises ValueError, nothing catches it
ParseError ==
    /\ pc = "start"
    /\ ArgcOK(argv)
    /\ ~IntValid(argv[2])
    /\ exc' = "ValueError"
    /\ exitStatus' = 1
    /\ pc' = "exit"
    /\ UNCHANGED <<env, fs, diskFree, RESERVOIR_SIZE, FILE_NAME, f, i, cur,
                   hist, stdout>>

\* RESERVOIR_SIZE = int(sys.argv[1]); FILE_NAME = sys.argv[2]
ParseArgs ==
    /\ pc = "start"
    /\ ArgcOK(argv)
    /\ IntValid(argv[2])
    /\ RESERVOIR_SIZE' = IntValue(argv[2])
    /\ FILE_NAME' = argv[3]
    /\ pc' = "parsed"
    /\ UNCHANGED <<env, fs, diskFree, f, i, cur, hist, stdout, exc,
                   exitStatus>>

\* variant of OpenedContent for mode 'a'
OpenedContent_Append(old) == old

\* mode 'w': the file is created if absent and emptied if present
OpenedContent(old) == <<>>

\* with open(FILE_NAME, 'w') as f: the open succeeds
OpenFile ==
    /\ pc = "parsed"
    /\ canOpen
    /\ opens' = opens + 1
    /\ fs' = [fs EXCEPT ![FILE_NAME] = File(OpenedContent(@.data))]
    /\ f' = "open"
    /\ pc' = "generating"
    /\ UNCHANGED <<env, diskFree, RESERVOIR_SIZE, FILE_NAME, i, cur, drawn,
                   ioErrors, stdout, exc, exitStatus>>

\* variant of OpenFail that calls open() again
OpenFail_Retry ==
    /\ pc = "parsed"
    /\ ~canOpen
    /\ opens < 2
    /\ opens' = opens + 1
    /\ ioErrors' = ioErrors + 1
    /\ UNCHANGED <<env, fs, diskFree, pc, RESERVOIR_SIZE, FILE_NAME, f, i,
                   cur, drawn, stdout, exc, exitStatus>>

\* the open raises an I/O error before the with block is entered
OpenFail ==
    /\ pc = "parsed"
    /\ ~canOpen
    /\ opens' = opens + 1
    /\ ioErrors' = ioErrors + 1
    /\ exc' = "IOError"
    /\ exitStatus' = 1
    /\ pc' = "exit"
    /\ UNCHANGED <<env, fs, diskFree, RESERVOIR_SIZE, FILE_NAME, f, i, cur,
                   drawn, stdout>>

\* variants of LoopCond: one iteration too many; the sign of n ignored
LoopCond_Inclusive(k, n) == k <= n

LoopCond_Abs(k, n) == k < (IF n < 0 THEN 0 - n ELSE n)

\* for i in range(RESERVOIR_SIZE): another iteration while i < RESERVOIR_SIZE
LoopCond(k, n) == k < n

\* random.randint(0, 2**32-1)
Generate ==
    /\ pc = "generating"
    /\ LoopCond(i, RESERVOIR_SIZE)
    /\ \E v \in Samples :
          /\ cur' = v
          /\ drawn' = Append(drawn, v)
    /\ pc' = "writing"
    /\ UNCHANGED <<env, fs, diskFree, RESERVOIR_SIZE, FILE_NAME, f, i, opens,
                   ioErrors, stdout, exc, exitStatus>>

\* f.write(hex(...)[2:] + '\n'): the line fits
Write ==
    /\ pc = "writing"
    /\ Len(LineOf(cur)) <= diskFree
    /\ fs' = [fs EXCEPT ![FILE_NAME].data = @ \o LineOf(cur)]
    /\ diskFree' = diskFree - Len(LineOf(cur))
    /\ i' = i + 1
    /\ pc' = "generating"
    /\ UNCHANGED <<env, RESERVOIR_SIZE, FILE_NAME, f, cur, hist, stdout, exc,
                   exitStatus>>

\* variant of WriteFail that ignores the error and goes on with the loop
WriteFail_Swallow ==
    /\ pc = "writing"
    /\ Len(LineOf(cur)) > diskFree
    /\ fs' = [fs EXCEPT ![FILE_NAME].data = @ \o SubSeq(LineOf(cur), 1, diskFree)]
    /\ diskFree' = 0
    /\ ioErrors' = ioErrors + 1
    /\ i' = i + 1
    /\ pc' = "generating"
    /\ UNCHANGED <<env, RESERVOIR_SIZE, FILE_NAME, f, cur, drawn, opens,
                   stdout, exc, exitStatus>>

\* the disk is full: what fits is written, the write raises an I/O error
\* and the with block is left
WriteFail ==
    /\ pc = "writing"
    /\ Len(LineOf(cur)) > diskFree
    /\ fs' = [fs EXCEPT ![FILE_NAME].data = @ \o SubSeq(LineOf(cur), 1, diskFree)]
    /\ diskFree' = 0
    /\ ioErrors' = ioErrors + 1
    /\ exc' = "IOError"
    /\ pc' = "closing"
    /\ UNCHANGED <<env, RESERVOIR_SIZE, FILE_NAME, f, i, cur, drawn, opens,
                   stdout, exitStatus>>

\* range(RESERVOIR_SIZE) is exhausted: the with block is left
LoopDone ==
    /\ pc = "generating"
    /\ ~LoopCond(i, RESERVOIR_SIZE)
    /\ pc' = "closing"
    /\ UNCHANGED <<env, fs, diskFree, RESERVOIR_SIZE, FILE_NAME, f, i, cur,
                   hist, stdout, exc, exitStatus>>

\* variant of WithExit that closes the file on normal completion only
WithExit_LeakOnError(h, e) == IF e = "none" THEN "closed" ELSE h

\* leaving the with block closes the file, with or without an exception

WithExit(h, e) == "closed"

CloseFile ==
    /\ pc = "closing"
    /\ f' = WithExit(f, exc)
    /\ pc' = "closed"
    /\ UNCHANGED <<env, fs, diskFree, RESERVOIR_SIZE, FILE_NAME, i, cur, hist,
                   stdout, exc, exitStatus>>

\* end of the script: status 0, or 1 when an exception propagates
ExitCode(e) == IF e = "none" THEN 0 ELSE 1

Terminate ==
    /\ pc = "closed"
    /\ exitStatus' = ExitCode(exc)
    /\ pc' = "exit"
    /\ UNCHANGED <<env, fs, diskFree, RESERVOIR_SIZE, FILE_NAME, f, i, cur,
                   hist, stdout, exc>>

Next ==
    \/ UsageError
    \/ ParseError
    \/ ParseArgs
    \/ OpenFile
    \/ OpenFail
    \/ Generate
    \/ Write
    \/ WriteFail
    \/ LoopDone
    \/ CloseFile
    \/ Terminate

Spec == Init /\ [][Next]_vars

(***************************************************************************)
(* Termination is checked on runs over one output path and one prior file  *)
(* system: the interpreter runs the script to its end, so every enabled    *)
(* step is eventually taken.                                               *)
(***************************************************************************)
FairArgLists ==
    { <<ProgName>>, <<ProgName, <<"a", "b", "c">>, "out.txt">> }
    \cup {<<ProgName, Dec(n), "out.txt">> : n \in (0 - 1)..MaxCount}

FairInit ==
    /\ Init
    /\ argv \in FairArgLists
    /\ fs = [p \in Paths |-> IF p = "out.txt" THEN File(<<"z", "z">>) ELSE Absent]
    /\ disk0 \in {MaxDisk, Ample}

FairSpec == FairInit /\ [][Next]_vars /\ WF_vars(Next)

(***************************************************************************)
(* Reading a file back: its complete lines, the text after the last        *)
(* newline, and the value of a line of hexadecimal digits.                 *)
(***************************************************************************)
HasNL(d) == \E k \in 1..Len(d) : d[k] = NL

FirstNL(d) == CHOOSE k \in 1..Len(d) : d[k] = NL /\ \A j \in 1..(k - 1) : d[j] # NL

RECURSIVE CompleteLines(_)
CompleteLines(d) ==
    IF ~HasNL(d) THEN <<>>
    ELSE <<SubSeq(d, 1, FirstNL(d) - 1)>>
         \o CompleteLines(SubSeq(d, FirstNL(d) + 1, Len(d)))

RECURSIVE Remainder(_)
Remainder(d) ==
    IF ~HasNL(d) THEN d ELSE Remainder(SubSeq(d, FirstNL(d) + 1, Len(d)))

IsHexLine(l) == l # <<>> /\ \A k \in 1..Len(l) : l[k] \in HexDigitSet

HexVal(c) == (CHOOSE k \in 1..Len(HexDigits) : HexDigits[k] = c) - 1

\* the value of a digit sequence; the high half exceeds 16 bits when the
\* value exceeds 2**32 - 1
RECURSIVE ParseHex(_)
ParseHex(l) ==
    IF l = <<>> THEN <<0, 0>>
    ELSE LET v == ParseHex(SubSeq(l, 1, Len(l) - 1))
             lo == v[2] * 16 + HexVal(l[Len(l)])
         IN  <<v[1] * 16 + (lo \div Half), lo % Half>>

InRange(v) == v[1] \in 0..(Half - 1) /\ v[2] \in 0..(Half - 1)

RECURSIVE Join(_)
Join(vs) ==
    IF vs = <<>> THEN <<>>
    ELSE Join(SubSeq(vs, 1, Len(vs) - 1)) \o LineOf(vs[Len(vs)])

Out == fs[FILE_NAME].data
OutLines == CompleteLines(Out)
LineMax == HexWidth + 1

\* the invocation "gen_stimuli.py n path"
CountGiven(n) == Len(argv) = 3 /\ argv[2] = Dec(n)
Writable(n) == canOpen /\ disk0 >= n * LineMax

(***************************************************************************)
(* C1: with exactly two arguments, a count n >= 0 and a writable output    *)
(* path, the run ends with exit status 0 and the output file then holds    *)
(* exactly n lines, each ended by a newline (none for n = 0).  The run     *)
(* meets no failure and runs at most n iterations, the open succeeds and   *)
(* every line fits the disk.                                               *)
(***************************************************************************)
C1_CountLines ==
    \A n \in 0..MaxCount :
        (CountGiven(n) /\ Writable(n)) =>
            /\ exc = "none" /\ ioErrors = 0
            /\ i <= n
            /\ pc = "parsed" => canOpen
            /\ pc = "writing" => Len(LineOf(cur)) <= diskFree
            /\ pc = "exit" =>
                  /\ exitStatus = 0
                  /\ fs[argv[3]].exists
                  /\ Len(CompleteLines(fs[argv[3]].data)) = n
                  /\ Remainder(fs[argv[3]].data) = <<>>

C1_Witness ==
    /\ pc = "exit" /\ exitStatus = 0
    /\ CountGiven(MaxCount) /\ Writable(MaxCount)
    /\ Len(OutLines) = MaxCount

(***************************************************************************)
(* C2: at every point of a run, every complete line of the file the run    *)
(* has opened consists of lowercase hexadecimal digits only, is not empty, *)
(* and its value lies in 0..2**32-1.                                       *)
(***************************************************************************)
C2_HexLines ==
    f # "none" =>
        \A k \in 1..Len(OutLines) :
            /\ IsHexLine(OutLines[k])
            /\ InRange(ParseHex(OutLines[k]))

C2_Witness ==
    /\ f = "closed"
    /\ Len(OutLines) >= 1
    /\ Remainder(Out) # <<>>

(***************************************************************************)
(* C3: when the number of arguments after the program name is not two, the *)
(* run prints the usage text, exits with a non-zero status, and never      *)
(* opens, creates, truncates or writes a file.                             *)
(***************************************************************************)
C3_Usage ==
    Len(argv) - 1 # 2 =>
        /\ fs = fs0
        /\ opens = 0
        /\ f = "none"
        /\ pc \in {"start", "exit"}
        /\ pc = "exit" => (stdout = <<UsageText>> /\ exitStatus # 0)

C3_Witness ==
    /\ pc = "exit"
    /\ Len(argv) = 4
    /\ stdout = <<UsageText>>
    /\ ~fs0[argv[3]].exists

(***************************************************************************)
(* C4: with two arguments of which the first is not an integer, the run    *)
(* exits with a non-zero status and the file named by the second argument  *)
(* is not created, truncated or modified: int() runs before open().        *)
(***************************************************************************)
C4_ParseBeforeOpen ==
    (Len(argv) = 3 /\ argv[2] \in OddArgs /\ ~IntValid(argv[2])) =>
        /\ fs = fs0
        /\ opens = 0
        /\ pc \in {"start", "exit"}
        /\ pc = "exit" => (exitStatus # 0 /\ exc = "ValueError")

C4_Witness ==
    /\ pc = "exit"
    /\ Len(argv) = 3
    /\ argv[2] = <<"1", ".", "5">>
    /\ exc = "ValueError"
    /\ fs[argv[3]].exists /\ fs[argv[3]].data # <<>>

(***************************************************************************)
(* C5: after a successful run the output file exists and holds exactly the *)
(* lines of the values this run drew, whatever the file held before (or if *)
(* it was absent); no other file is touched.                               *)
(***************************************************************************)
C5_Truncate ==
    (pc = "exit" /\ exitStatus = 0) =>
        /\ fs[FILE_NAME] = File(Join(drawn))
        /\ RESERVOIR_SIZE >= 0 => Len(drawn) = RESERVOIR_SIZE
        /\ \A p \in Paths \ {FILE_NAME} : fs[p] = fs0[p]

C5_Witness ==
    /\ pc = "exit" /\ exitStatus = 0
    /\ drawn # <<>>
    /\ fs0[FILE_NAME].exists
    /\ Len(fs0[FILE_NAME].data) > Len(Out)

(***************************************************************************)
(* C6: the file object is closed on every exit path: the process never     *)
(* exits with the file open, and a run that opened the file exits with it  *)
(* closed, after a normal completion and after a failed write alike.       *)
(***************************************************************************)
C6_Closed ==
    pc = "exit" =>
        /\ f # "open"
        /\ (opens > 0 /\ canOpen) => f = "closed"

C6_Witness ==
    /\ pc = "exit"
    /\ exc = "IOError"
    /\ f = "closed"
    /\ drawn # <<>>

(***************************************************************************)
(* C7: when the open or a write fails, the run exits with a non-zero       *)
(* status and retries nothing: open() is called at most once, at most one  *)
(* I/O call fails, after a failure no file is written and nothing is       *)
(* opened, and exit status 0 is never reached.                             *)
(***************************************************************************)
C7_State ==
    /\ opens <= 1
    /\ ioErrors <= 1
    /\ (pc = "exit" /\ ioErrors > 0) => exitStatus = 1
    /\ (pc = "exit" /\ Len(argv) = 3 /\ IntValid(argv[2]) /\ ~canOpen)
          => exitStatus = 1

C7_AfterFailure ==
    ioErrors > 0 => (fs' = fs /\ opens' = opens /\ pc' \notin {"generating", "writing"})

C7_NoRetry == []C7_State /\ [][C7_AfterFailure]_vars

C7_Witness ==
    /\ pc = "exit"
    /\ exitStatus = 1
    /\ ioErrors = 1
    /\ f = "closed"
    /\ Len(drawn) >= 2

(***************************************************************************)
(* C8: the lines of the file are the values drawn, in the order drawn, in  *)
(* shortest hexadecimal form: line k parses back to the k-th value, has at *)
(* most 8 digits and no leading zero unless the value is 0, whose line is  *)
(* "0".  Each value is written right after it is drawn: at the head of the *)
(* loop as many lines are written as values are drawn, and while a write   *)
(* is pending only the current value is unwritten.                         *)
(***************************************************************************)
C8_Encoding ==
    f # "none" =>
        /\ Len(OutLines) <= Len(drawn)
        /\ \A k \in 1..Len(OutLines) :
              /\ IsHexLine(OutLines[k])
              /\ ParseHex(OutLines[k]) = drawn[k]
              /\ Len(OutLines[k]) <= HexWidth
              /\ OutLines[k][1] = "0" =>
                    (OutLines[k] = <<"0">> /\ drawn[k] = MinVal)
        /\ pc = "generating" =>
              (Len(OutLines) = Len(drawn) /\ Len(drawn) = i
                 /\ Remainder(Out) = <<>>)
        /\ pc = "writing" =>
              (Len(drawn) = Len(OutLines) + 1 /\ cur = drawn[Len(drawn)]
                 /\ Remainder(Out) = <<>>)
        /\ (pc = "exit" /\ exitStatus = 0) =>
              (Len(OutLines) = Len(drawn) /\ Remainder(Out) = <<>>)

C8_Witness ==
    /\ pc = "exit" /\ exitStatus = 0
    /\ Len(drawn) = 3
    /\ drawn[1] = <<1, 0>> /\ drawn[2] = MinVal /\ drawn[3] = MaxVal
    /\ OutLines = << <<"1", "0", "0", "0", "0">>, <<"0">>,
                     <<"f", "f", "f", "f", "f", "f", "f", "f">> >>

(***************************************************************************)
(* C9 as stated: every step follows Start -> ArgsParsed -> Generating ->   *)
(* Writing -> Closed/Exit (Generating and Writing alternating once per     *)
(* value), and the only step off this path is the exit taken when the      *)
(* number of arguments is wrong.                                           *)
(***************************************************************************)
LinearPath ==
    { <<"start", "parsed">>, <<"parsed", "generating">>,
      <<"generating", "writing">>, <<"writing", "generating">>,
      <<"generating", "closing">>, <<"closing", "closed">>,
      <<"closed", "exit">> }

C9_OriginalStep ==
    \/ <<pc, pc'>> \in LinearPath
    \/ pc = "start" /\ pc' = "exit" /\ Len(argv) - 1 # 2

C9_Original == [][C9_OriginalStep]_vars

(***************************************************************************)
(* C9 amended: every step moves forward along Start -> ArgsParsed ->       *)
(* Generating -> Writing -> Closed -> Exit, Generating and Writing         *)
(* alternating once per value with the loop index advancing; the steps off *)
(* this path are the failures, each leading towards the exit with a        *)
(* non-zero status: wrong argument count or integer parse error (Start to  *)
(* Exit), failed open (ArgsParsed to Exit), failed write (Writing to       *)
(* Closed).  No position is retried, the file is opened only after the     *)
(* arguments are parsed, and every run eventually exits.                   *)
(***************************************************************************)
C9_AmendedStep ==
    \/ <<pc, pc'>> \in LinearPath \ {<<"writing", "generating">>}
    \/ pc = "writing" /\ pc' = "generating" /\ i' = i + 1
    \/ pc = "start" /\ pc' = "exit" /\ exitStatus' # 0 /\ opens' = 0
         /\ (Len(argv) - 1 # 2 \/ exc' = "ValueError")
    \/ pc = "parsed" /\ pc' = "exit" /\ exitStatus' # 0 /\ exc' = "IOError"
    \/ pc = "writing" /\ pc' = "closing" /\ exc' = "IOError"

C9_OpenAfterParse ==
    /\ pc = "start" => (opens = 0 /\ f = "none" /\ fs = fs0)
    /\ opens <= 1
    /\ (pc = "exit" /\ exc # "none") => exitStatus # 0

C9_Amended ==
    /\ [][C9_AmendedStep]_vars
    /\ []C9_OpenAfterParse
    /\ <>(pc = "exit")

C9_Witness ==
    /\ pc = "exit"
    /\ exitStatus = 0
    /\ i = MaxCount
    /\ f = "closed"

(***************************************************************************)
(* C10: a negative count is accepted: the run creates the output file or   *)
(* empties an existing one, draws and writes nothing, and exits with       *)
(* status 0, as for count 0; a successful run writes max(count, 0) lines.  *)
(***************************************************************************)
NegativeGiven == \E n \in 1..MaxNeg : CountGiven(0 - n)

C10_Negative ==
    /\ (NegativeGiven /\ canOpen) =>
          /\ drawn = <<>>
          /\ pc # "writing"
          /\ ioErrors = 0
          /\ pc \notin {"start", "parsed"} => fs[argv[3]] = File(<<>>)
          /\ pc = "exit" => exitStatus = 0
    /\ (pc = "exit" /\ exitStatus = 0) =>
          Len(OutLines) = (IF RESERVOIR_SIZE < 0 THEN 0 ELSE RESERVOIR_SIZE)

C10_Witness ==
    /\ pc = "exit" /\ exitStatus = 0
    /\ CountGiven(0 - MaxNeg)
    /\ RESERVOIR_SIZE = 0 - MaxNeg
    /\ fs0[FILE_NAME].exists /\ fs0[FILE_NAME].data # <<>>
    /\ fs[FILE_NAME] = File(<<>>)
====
